---------------------------- MODULE Spec2Model ----------------------------
(***************************************************************************)
(* The fuzzy lighting controller of HW2_fuzzy.py: LightingConfig, the      *)
(* construction of FuzzyLightingControlSystem (membership arrays and the   *)
(* 14 rules), _validate_input and compute_light_intensity, which drives    *)
(* one shared skfuzzy ControlSystemSimulation (set both inputs, compute,   *)
(* read the output).                                                       *)
(*                                                                         *)
(* Numbers.  A crisp input is an integer number of ticks, Res ticks to the *)
(* unit (with Res = 2 the tick 11 is the value 5.5).  A membership array   *)
(* holds integers out of Denominator, the least common multiple of the     *)
(* slope widths b-a and c-b of the configured triangles, so every sampled  *)
(* degree is exact.  A degree interpolated at a tick, a firing strength    *)
(* and a point of the aggregated curve are integers out of Scale =         *)
(* Denominator * Res.  A crisp output is the exact fraction <<num, den>>.  *)
(* Python's None (compute_light_intensity's failure value) is None.        *)
(***************************************************************************)
EXTENDS Integers, Sequences, FiniteSets, TLC

VARIABLES
    config,       \* LightingConfig: the three ranges
    mf,           \* the membership arrays built by _initialize_fuzzy_variables
    rules,        \* the rule list handed to ctrl.ControlSystem
    simInput,     \* light_simulation.input: a dict, empty until first set
    simOutput,    \* light_simulation.output: a dict, empty until a compute succeeds
    membership,   \* degrees of the antecedent terms, set by compute (fuzzification)
    firing,       \* firing strength of each rule, set by compute
    aggregated,   \* the aggregated output curve of the last compute
    pc,           \* per caller: where its compute_light_intensity call stands
    args,         \* per caller: the arguments of its call
    local,        \* per caller: brightness_value, time_of_day_value after validation
    ret,          \* per caller: what its call returned
    log,          \* per caller: the logging events its call emitted
    disturbed,    \* per caller: another caller took a step during its call
    failedBefore, \* some earlier call returned the failure value
    memo          \* a remembered earlier call: <<arguments, returned value,
                  \*   whether a call with other arguments came after it>>

vars == <<config, mf, rules, simInput, simOutput, membership, firing, aggregated,
          pc, args, local, ret, log, disturbed, failedBefore, memo>>

---------------------------------------------------------------------------
(* Bounds of the model *)

\* ticks per unit of an input value
Res == 2

\* how many ticks outside [min, max] an argument may lie
Over == 2

---------------------------------------------------------------------------
(* Arithmetic helpers *)

None == <<>>

Min(a, b) == IF a <= b THEN a ELSE b

Max(a, b) == IF a >= b THEN a ELSE b

RECURSIVE GCD(_, _)
GCD(a, b) == IF b = 0 THEN a ELSE GCD(b, a % b)

RECURSIVE LCMOf(_)
LCMOf(S) ==
    IF S = {} THEN 1
    ELSE LET n == CHOOSE n \in S : TRUE
             r == LCMOf(S \ {n})
         IN  (n * r) \div GCD(n, r)

SetMax(S) == CHOOSE m \in S : \A n \in S : n <= m

SetMin(S) == CHOOSE m \in S : \A n \in S : m <= n

RECURSIVE SetSum(_)
SetSum(S) ==
    IF S = {} THEN 0
    ELSE LET n == CHOOSE n \in S : TRUE
         IN  n + SetSum(S \ {n})

\* f itself, with every value computed once (TLC otherwise recomputes f[x]
\* at each use of a function written [x \in S |-> e])
Array(f) == f @@ <<>>

\* sum of f[x] over lo..hi
RECURSIVE SumOver(_, _, _)
SumOver(f, lo, hi) == IF lo > hi THEN 0 ELSE f[lo] + SumOver(f, lo + 1, hi)

\* sum of x * f[x] over lo..hi
RECURSIVE MomentOver(_, _, _)
MomentOver(f, lo, hi) == IF lo > hi THEN 0 ELSE lo * f[lo] + MomentOver(f, lo + 1, hi)

---------------------------------------------------------------------------
(* LightingConfig and the configured triangles *)

LightingConfig ==
    [brightness_range      |-> <<0, 120>>,
     time_of_day_range     |-> <<0, 24>>,
     light_intensity_range |-> <<0, 100>>]

Antecedents == {"brightness", "time_of_day"}

Consequent == "light_intensity"

RangeOf(cfg, var) ==
    CASE var = "brightness"      -> cfg.brightness_range
      [] var = "time_of_day"     -> cfg.time_of_day_range
      [] var = "light_intensity" -> cfg.light_intensity_range

\* the control points [a, b, c] given to fuzz.trimf for each label
Triangles ==
    [brightness |->
        [dark        |-> <<0, 0, 30>>,
         dim         |-> <<20, 50, 80>>,
         bright      |-> <<60, 90, 100>>,
         very_bright |-> <<90, 120, 120>>],
     time_of_day |->
        [night     |-> <<0, 3, 6>>,
         morning   |-> <<5, 9, 12>>,
         afternoon |-> <<11, 15, 18>>,
         evening   |-> <<17, 21, 24>>],
     light_intensity |->
        [very_low  |-> <<0, 0, 25>>,
         low       |-> <<15, 35, 55>>,
         medium    |-> <<45, 60, 75>>,
         high      |-> <<65, 85, 100>>,
         very_high |-> <<90, 100, 100>>]]

Variables == DOMAIN Triangles

Labels(var) == DOMAIN Triangles[var]

\* the widths of all rising and falling slopes
SlopeWidths ==
    UNION {UNION {{Triangles[v][l][2] - Triangles[v][l][1],
                   Triangles[v][l][3] - Triangles[v][l][2]} \ {0} :
                  l \in Labels(v)} : v \in Variables}

Denominator == LCMOf(SlopeWidths)

Scale == Denominator * Res


---------------------------------------------------------------------------
(* numpy and skfuzzy primitives used by the engine.  The simulation is      *)
(* taken with the defaults the module leaves in place: inputs clipped to   *)
(* the sampled universe, & as np.fmin, firings on one consequent term      *)
(* accumulated by np.fmax, terms clipped at their activation and joined by *)
(* the pointwise maximum, centroid defuzzification over the sample points. *)

\* np.arange(lo, hi, 1): lo, lo+1, ..., hi-1; the stop value is excluded
arange(range) == range[1] .. (range[2] - 1)

\* fuzz.trimf at one universe point x, out of Denominator
trimf(x, abc) ==
    LET a == abc[1]
        b == abc[2]
        c == abc[3]
    IN  IF x = b THEN Denominator
        ELSE IF a # b /\ a < x /\ x < b THEN ((x - a) * Denominator) \div (b - a)
        ELSE IF b # c /\ b < x /\ x < c THEN ((c - x) * Denominator) \div (c - b)
        ELSE 0

\* fuzz.trimf(universe, abc): the sampled membership array
trimfArray(universe, abc) == Array([x \in universe |-> trimf(x, abc)])

\* universe.min() and universe.max() of np.arange(*range, 1)
universe_min(range) == range[1]

universe_max(range) == range[2] - 1

\* the simulation's clip_to_bounds: an input is clipped to the sampled universe
clip_to_bounds(range, xx) ==
    Max(universe_min(range) * Res, Min(universe_max(range) * Res, xx))

\* fuzz.interp_membership(universe, array, xx): linear interpolation between
\* the two neighbouring samples, 0 outside the universe; out of Scale
interp_membership(range, array, xx) ==
    IF xx < universe_min(range) * Res \/ xx > universe_max(range) * Res THEN 0
    ELSE LET k == xx \div Res
             r == xx % Res
         IN  IF r = 0 THEN array[k] * Res
             ELSE array[k] * (Res - r) + array[k + 1] * r

\* as fuzzy_and, but the | of the terms: np.fmax
fuzzy_or(S) == SetMax(S)

\* the & of two terms in a rule antecedent: np.fmin
fuzzy_and(S) == SetMin(S)

\* as accumulate, but the firings are added up
accumulate_sum(S) == SetSum(S)

\* accumulation of several rule firings on one consequent term: np.fmax
accumulate(S) == SetMax(S)

---------------------------------------------------------------------------
(* Construction: _initialize_fuzzy_variables and _initialize_rules *)

initialize_fuzzy_variables(cfg) ==
    [v \in Variables |->
        [l \in Labels(v) |-> trimfArray(arange(RangeOf(cfg, v)), Triangles[v][l])]]

Rule(ant, con) == [antecedent |-> ant, consequent |-> con]

B(l) == <<"brightness", l>>

T(l) == <<"time_of_day", l>>

\* as initialize_rules, but rule11 is left out of the list
initialize_rules_short ==
    << Rule({B("dark"), T("night")},       "very_high"),
       Rule({B("dark"), T("morning")},     "high"),
       Rule({B("dim"), T("afternoon")},    "medium"),
       Rule({B("bright")},                 "low"),
       Rule({B("dark"), T("evening")},     "very_high"),
       Rule({B("dim"), T("night")},        "high"),
       Rule({B("dim"), T("morning")},      "medium"),
       Rule({B("bright"), T("afternoon")}, "very_low"),
       Rule({B("bright"), T("evening")},   "very_low"),
       Rule({B("dim"), T("evening")},      "high"),
       Rule({B("bright"), T("night")},     "low"),
       Rule({B("bright"), T("morning")},   "very_low"),
       Rule({B("very_bright")},            "very_low") >>

\* the list [rule1, ..., rule14] of the control system
initialize_rules ==
    << Rule({B("dark"), T("night")},       "very_high"),
       Rule({B("dark"), T("morning")},     "high"),
       Rule({B("dim"), T("afternoon")},    "medium"),
       Rule({B("bright")},                 "low"),
       Rule({B("dark"), T("evening")},     "very_high"),
       Rule({B("dim"), T("night")},        "high"),
       Rule({B("dim"), T("morning")},      "medium"),
       Rule({B("bright"), T("afternoon")}, "very_low"),
       Rule({B("bright"), T("evening")},   "very_low"),
       Rule({B("dim"), T("evening")},      "high"),
       Rule({B("dark"), T("afternoon")},   "medium"),
       Rule({B("bright"), T("night")},     "low"),
       Rule({B("bright"), T("morning")},   "very_low"),
       Rule({B("very_bright")},            "very_low") >>


---------------------------------------------------------------------------
(* _validate_input *)

Warning(var, value, bound) ==
    [level |-> "WARNING", variable |-> var, value |-> value, adjusted |-> bound]

\* as validate_one, but an out-of-range value is adjusted to the opposite bound
validate_one_swapped(var, range, value) ==
    IF value < range[1] * Res
    THEN [value |-> range[2] * Res, events |-> <<Warning(var, value, range[2] * Res)>>]
    ELSE IF value > range[2] * Res
    THEN [value |-> range[1] * Res, events |-> <<Warning(var, value, range[1] * Res)>>]
    ELSE [value |-> value, events |-> <<>>]

\* as validate_one, but with <= and >= for < and >
validate_one_inclusive(var, range, value) ==
    IF value <= range[1] * Res
    THEN [value |-> range[1] * Res, events |-> <<Warning(var, value, range[1] * Res)>>]
    ELSE IF value >= range[2] * Res
    THEN [value |-> range[2] * Res, events |-> <<Warning(var, value, range[2] * Res)>>]
    ELSE [value |-> value, events |-> <<>>]

\* one of the two if/elif blocks: the value after adjustment and the warnings
validate_one(var, range, value) ==
    IF value < range[1] * Res
    THEN [value |-> range[1] * Res, events |-> <<Warning(var, value, range[1] * Res)>>]
    ELSE IF value > range[2] * Res
    THEN [value |-> range[2] * Res, events |-> <<Warning(var, value, range[2] * Res)>>]
    ELSE [value |-> value, events |-> <<>>]

validate_input(cfg, brightness, time_of_day) ==
    LET b == validate_one("brightness", cfg.brightness_range, brightness)
        t == validate_one("time_of_day", cfg.time_of_day_range, time_of_day)
    IN  [brightness  |-> b.value,
         time_of_day |-> t.value,
         events      |-> b.events \o t.events]

---------------------------------------------------------------------------
(* light_simulation: input[...] = value, compute(), output[...] *)

\* as set_input, but an entry already present is kept
set_input_keep(cfg, input, var, value) ==
    [k \in DOMAIN input \cup {var} |->
        IF k \in DOMAIN input THEN input[k]
        ELSE clip_to_bounds(RangeOf(cfg, var), value)]

\* light_simulation.input[var] = value
set_input(cfg, input, var, value) ==
    [k \in DOMAIN input \cup {var} |->
        IF k = var THEN clip_to_bounds(RangeOf(cfg, var), value) ELSE input[k]]

\* fuzzification of every antecedent term at the current inputs
fuzzify(cfg, mfs, input) ==
    Array(
        [v \in Antecedents |->
            [l \in Labels(v) |-> interp_membership(RangeOf(cfg, v), mfs[v][l], input[v])]])

\* firing strength of every rule
fire_rules(rls, degrees) ==
    Array(
        [i \in DOMAIN rls |->
            fuzzy_and({degrees[t[1]][t[2]] : t \in rls[i].antecedent})])

\* activation of every consequent term some rule targets
activations(rls, strengths) ==
    Array(
        [l \in {rls[i].consequent : i \in DOMAIN rls} |->
            accumulate({strengths[i] : i \in {j \in DOMAIN rls : rls[j].consequent = l}})])

\* the aggregated output curve: each term clipped at its activation, then the
\* pointwise maximum over the terms
aggregate(cfg, mfs, cuts) ==
    Array(
        [x \in arange(RangeOf(cfg, Consequent)) |->
            SetMax({Min(cuts[l], mfs[Consequent][l][x] * Res) : l \in DOMAIN cuts})])

\* as defuzz, but an area of 0 gives the number 0 instead of raising
defuzz_default(cfg, curve) ==
    LET lo  == universe_min(RangeOf(cfg, Consequent))
        hi  == universe_max(RangeOf(cfg, Consequent))
        den == SumOver(curve, lo, hi)
    IN  IF den = 0 THEN [raised |-> FALSE, value |-> <<0, 1>>]
        ELSE [raised |-> FALSE, value |-> <<MomentOver(curve, lo, hi), den>>]

\* centroid defuzzification over the sample points; raises when the area is 0
defuzz(cfg, curve) ==
    LET lo  == universe_min(RangeOf(cfg, Consequent))
        hi  == universe_max(RangeOf(cfg, Consequent))
        den == SumOver(curve, lo, hi)
    IN  IF den = 0 THEN [raised |-> TRUE, value |-> None]
        ELSE [raised |-> FALSE, value |-> <<MomentOver(curve, lo, hi), den>>]

\* light_simulation.compute()
sim_compute(cfg, mfs, rls, input) ==
    IF DOMAIN input # Antecedents
    THEN [raised |-> TRUE, membership |-> membership, firing |-> firing,
          aggregated |-> aggregated, value |-> None]
    ELSE LET degrees   == fuzzify(cfg, mfs, input)
             strengths == fire_rules(rls, degrees)
             curve     == aggregate(cfg, mfs, activations(rls, strengths))
             out       == defuzz(cfg, curve)
         IN  [raised |-> out.raised, membership |-> degrees, firing |-> strengths,
              aggregated |-> curve, value |-> out.value]


---------------------------------------------------------------------------
(* compute_light_intensity *)

Callers == {1, 2}

\* the module-level driver loop, which calls one after the other
Driver == 1

Info(value, brightness, time_of_day) ==
    [level |-> "INFO", intensity |-> value,
     brightness |-> brightness, time_of_day |-> time_of_day]

Error == [level |-> "ERROR"]

Init ==
    /\ config = LightingConfig
    /\ mf = initialize_fuzzy_variables(LightingConfig)
    /\ rules = initialize_rules
    /\ simInput = <<>>
    /\ simOutput = <<>>
    /\ membership = <<>>
    /\ firing = <<>>
    /\ aggregated = <<>>
    /\ pc = [c \in Callers |-> "idle"]
    /\ args = [c \in Callers |-> None]
    /\ local = [c \in Callers |-> None]
    /\ ret = [c \in Callers |-> None]
    /\ log = [c \in Callers |-> <<>>]
    /\ disturbed = [c \in Callers |-> FALSE]
    /\ failedBefore = FALSE
    /\ memo = None

\* as returned, but the output entry is read even though compute raised
returned_stale(raised, output) ==
    IF Consequent \notin DOMAIN output THEN None ELSE output[Consequent]

\* what the try block hands back: the output entry, or None when compute (or
\* the read of the entry) raised and the except branch ran
returned(raised, output) ==
    IF raised \/ Consequent \notin DOMAIN output THEN None ELSE output[Consequent]

\* one whole call by caller c, nothing else running in between
compute_light_intensity(c, brightness_value, time_of_day_value) ==
    \E v \in {validate_input(config, brightness_value, time_of_day_value)} :
    \E input1 \in {set_input(config, simInput, "brightness", v.brightness)} :
    \E input2 \in {set_input(config, input1, "time_of_day", v.time_of_day)} :
    \E r \in {sim_compute(config, mf, rules, input2)} :
        /\ simInput' = input2
        /\ membership' = r.membership
        /\ firing' = r.firing
        /\ aggregated' = r.aggregated
        /\ simOutput' = IF r.raised THEN simOutput
                        ELSE [k \in DOMAIN simOutput \cup {Consequent} |-> r.value]
        /\ ret' = [ret EXCEPT ![c] = returned(r.raised, simOutput')]
        /\ log' = [log EXCEPT ![c] =
                     v.events \o <<IF ret'[c] = None THEN Error
                                   ELSE Info(ret'[c], v.brightness, v.time_of_day)>>]
        /\ args' = [args EXCEPT ![c] = <<brightness_value, time_of_day_value>>]
        /\ local' = [local EXCEPT ![c] = <<v.brightness, v.time_of_day>>]
        /\ pc' = [pc EXCEPT ![c] = "done"]
        /\ UNCHANGED <<config, mf, rules>>

---------------------------------------------------------------------------
(* SpecSweep: one call on a fresh engine, for every argument pair of the grid *)

SweepBrightness ==
    (LightingConfig.brightness_range[1] * Res - Over) ..
    (LightingConfig.brightness_range[2] * Res + Over)

SweepTimeOfDay ==
    (LightingConfig.time_of_day_range[1] * Res - Over) ..
    (LightingConfig.time_of_day_range[2] * Res + Over)

SweepInit ==
    /\ config = LightingConfig
    /\ mf = initialize_fuzzy_variables(LightingConfig)
    /\ rules = initialize_rules
    /\ simInput = <<>>
    /\ simOutput = <<>>
    /\ membership = <<>>
    /\ firing = <<>>
    /\ aggregated = <<>>
    /\ pc = [c \in Callers |-> IF c = Driver THEN "called" ELSE "idle"]
    /\ args \in {[c \in Callers |-> IF c = Driver THEN <<b, t>> ELSE None] :
                    b \in SweepBrightness, t \in SweepTimeOfDay}
    /\ local = [c \in Callers |-> None]
    /\ ret = [c \in Callers |-> None]
    /\ log = [c \in Callers |-> <<>>]
    /\ disturbed = [c \in Callers |-> FALSE]
    /\ failedBefore = FALSE
    /\ memo = None

Evaluate ==
    /\ pc[Driver] = "called"
    /\ compute_light_intensity(Driver, args[Driver][1], args[Driver][2])
    /\ UNCHANGED <<disturbed, failedBefore, memo>>

SweepNext == Evaluate

SpecSweep == SweepInit /\ [][SweepNext]_vars

---------------------------------------------------------------------------
(* Spec: the driver loop, one whole call after the other on one engine *)

Units(n) == n * Res

\* the test_cases list of the module, in ticks
test_cases ==
    { <<Units(20), Units(22)>>, <<Units(60), Units(10)>>, <<Units(90), Units(15)>>,
      <<Units(30), Units(20)>>, <<Units(10), Units(3)>>,  <<Units(80), Units(8)>>,
      <<Units(40), Units(13)>>, <<Units(70), Units(18)>>, <<Units(105), Units(12)>> }

\* further argument pairs: beyond each bound of each range, midnight
\* (time_of_day 0), where no time_of_day label has a degree above 0, and a
\* pair between samples where two rules with the same consequent fire
ProbeCalls ==
    { <<Units(LightingConfig.brightness_range[1]) - Over, Units(3)>>,
      <<Units(LightingConfig.brightness_range[2]) + Over, Units(3)>>,
      <<Units(10), Units(LightingConfig.time_of_day_range[1]) - Over>>,
      <<Units(10), Units(LightingConfig.time_of_day_range[2]) + Over>>,
      <<Units(10), Units(LightingConfig.time_of_day_range[1])>>,
      <<Units(25), Units(5) + Res \div 2>> }

DriverCalls == test_cases \cup ProbeCalls

\* the loop body: results.append(...) happens only when the call returned a
\* number; failedBefore and memo record what earlier iterations returned
DriverCall ==
    \E a \in DriverCalls :
        /\ compute_light_intensity(Driver, a[1], a[2])
        /\ failedBefore' = (failedBefore \/ (pc[Driver] = "done" /\ ret[Driver] = None))
        /\ memo' \in IF memo = None
                     THEN IF pc[Driver] = "done"
                          THEN {None, <<args[Driver], ret[Driver], FALSE>>}
                          ELSE {None}
                     ELSE {<<memo[1], memo[2], memo[3] \/ args[Driver] # memo[1]>>}
        /\ UNCHANGED disturbed

Next == DriverCall

Spec == Init /\ [][Next]_vars

---------------------------------------------------------------------------
(* SpecConc: two callers on the same engine, each running the steps of      *)
(* compute_light_intensity one at a time                                    *)

ConcCalls == { <<Units(10), Units(3)>>, <<Units(90), Units(15)>>, <<Units(10), Units(0)>> }

InSimulation == {"brightness_set", "inputs_set", "computed"}

\* a step of caller c on the simulation disturbs every other caller that is
\* between its first input assignment and its read of the output
Disturb(c) ==
    disturbed' = [d \in Callers |->
                    disturbed[d] \/ (d # c /\ pc[d] \in InSimulation)]

\* brightness_value, time_of_day_value = self._validate_input(...)
Validate(c) ==
    /\ pc[c] = "idle"
    /\ \E a \in ConcCalls :
       \E v \in {validate_input(config, a[1], a[2])} :
           /\ args' = [args EXCEPT ![c] = a]
           /\ local' = [local EXCEPT ![c] = <<v.brightness, v.time_of_day>>]
           /\ log' = [log EXCEPT ![c] = v.events]
    /\ pc' = [pc EXCEPT ![c] = "validated"]
    /\ UNCHANGED <<config, mf, rules, simInput, simOutput, membership, firing,
                   aggregated, ret, disturbed, failedBefore, memo>>

\* self.light_simulation.input['brightness'] = brightness_value
SetBrightness(c) ==
    /\ pc[c] = "validated"
    /\ simInput' = set_input(config, simInput, "brightness", local[c][1])
    /\ pc' = [pc EXCEPT ![c] = "brightness_set"]
    /\ Disturb(c)
    /\ UNCHANGED <<config, mf, rules, simOutput, membership, firing, aggregated,
                   args, local, ret, log, failedBefore, memo>>

\* self.light_simulation.input['time_of_day'] = time_of_day_value
SetTimeOfDay(c) ==
    /\ pc[c] = "brightness_set"
    /\ simInput' = set_input(config, simInput, "time_of_day", local[c][2])
    /\ pc' = [pc EXCEPT ![c] = "inputs_set"]
    /\ Disturb(c)
    /\ UNCHANGED <<config, mf, rules, simOutput, membership, firing, aggregated,
                   args, local, ret, log, failedBefore, memo>>

\* self.light_simulation.compute(); an exception ends the call with None
Compute(c) ==
    /\ pc[c] = "inputs_set"
    /\ \E r \in {sim_compute(config, mf, rules, simInput)} :
           /\ membership' = r.membership
           /\ firing' = r.firing
           /\ aggregated' = r.aggregated
           /\ simOutput' = IF r.raised THEN simOutput
                           ELSE [k \in DOMAIN simOutput \cup {Consequent} |-> r.value]
           /\ pc' = [pc EXCEPT ![c] = IF r.raised THEN "done" ELSE "computed"]
           /\ IF r.raised
              THEN /\ ret' = [ret EXCEPT ![c] = returned(TRUE, simOutput')]
                   /\ log' = [log EXCEPT ![c] =
                                Append(@, IF ret'[c] = None THEN Error
                                          ELSE Info(ret'[c], local[c][1], local[c][2]))]
              ELSE UNCHANGED <<ret, log>>
    /\ Disturb(c)
    /\ UNCHANGED <<config, mf, rules, simInput, args, local, failedBefore, memo>>

\* intensity = self.light_simulation.output['light_intensity']; log; return
ReadOutput(c) ==
    /\ pc[c] = "computed"
    /\ ret' = [ret EXCEPT ![c] = returned(FALSE, simOutput)]
    /\ log' = [log EXCEPT ![c] =
                 Append(@, IF ret'[c] = None THEN Error
                           ELSE Info(ret'[c], local[c][1], local[c][2]))]
    /\ pc' = [pc EXCEPT ![c] = "done"]
    /\ UNCHANGED <<config, mf, rules, simInput, simOutput, membership, firing,
                   aggregated, args, local, disturbed, failedBefore, memo>>

ConcNext ==
    \E c \in Callers :
        \/ Validate(c)
        \/ SetBrightness(c)
        \/ SetTimeOfDay(c)
        \/ Compute(c)
        \/ ReadOutput(c)

SpecConc == Init /\ [][ConcNext]_vars

---------------------------------------------------------------------------
(* What the claims are stated with *)

\* the membership arrays of a freshly constructed engine
FreshMf == initialize_fuzzy_variables(LightingConfig)

\* what compute_light_intensity(b, t) returns on a freshly constructed
\* engine, the call running alone
solo_result(b, t) ==
    LET v == validate_input(LightingConfig, b, t)
    IN  sim_compute(LightingConfig, FreshMf, initialize_rules,
                    set_input(LightingConfig,
                              set_input(LightingConfig, <<>>, "brightness", v.brightness),
                              "time_of_day", v.time_of_day)).value

Done == pc[Driver] = "done"

ArgOf(c, var) == IF var = "brightness" THEN args[c][1] ELSE args[c][2]

LocalOf(c, var) == IF var = "brightness" THEN local[c][1] ELSE local[c][2]

Below(x, range) == x < Units(range[1])

Above(x, range) == x > Units(range[2])

\* x moved to the nearest bound of [min, max]
Nearest(x, range) == Max(Units(range[1]), Min(Units(range[2]), x))

Warned(c, var) ==
    \E i \in DOMAIN log[c] :
        /\ log[c][i].level = "WARNING"
        /\ log[c][i].variable = var

NoRuleFired == \A i \in DOMAIN firing : firing[i] = 0

---------------------------------------------------------------------------
(* C1 *)

\* C1 (clamping law): a call whose brightness or time_of_day lies outside
\* the configured range returns what a call alone on a fresh engine returns
\* for the same arguments moved to the nearest bound (0 or 120, 0 or 24).
C1_ClampingLaw ==
    (/\ Done
     /\ \/ Below(args[Driver][1], LightingConfig.brightness_range)
        \/ Above(args[Driver][1], LightingConfig.brightness_range)
        \/ Below(args[Driver][2], LightingConfig.time_of_day_range)
        \/ Above(args[Driver][2], LightingConfig.time_of_day_range))
    => ret[Driver] = solo_result(Nearest(args[Driver][1], LightingConfig.brightness_range),
                                 Nearest(args[Driver][2], LightingConfig.time_of_day_range))

\* a call with brightness below 0 has returned a number, after an earlier call
C1_Witness ==
    /\ Done
    /\ Below(args[Driver][1], LightingConfig.brightness_range)
    /\ ret[Driver] # None
    /\ memo # None

---------------------------------------------------------------------------
(* C2 *)

\* C2 (no-fire case): when every rule has firing strength 0 the aggregated
\* curve is 0 at every sample point and the call returns the failure value,
\* never a number, and logs an error; a number left in the simulation's
\* output by an earlier call is not returned.
C2_NoFireFails ==
    (Done /\ NoRuleFired)
    => /\ \A x \in DOMAIN aggregated : aggregated[x] = 0
       /\ ret[Driver] = None
       /\ log[Driver][Len(log[Driver])] = Error

\* brightness 10 at time_of_day 0 after a call that left a number behind
C2_Witness ==
    /\ Done
    /\ NoRuleFired
    /\ args[Driver] = <<Units(10), Units(0)>>
    /\ Consequent \in DOMAIN simOutput
    /\ ret[Driver] = None

---------------------------------------------------------------------------
(* C3 *)

---------------------------------------------------------------------------
(* C4 *)

\* the remembered call and the latest call have the same arguments
Repeated == Done /\ memo # None /\ memo[1] = args[Driver]

\* C4, first part: a call with the arguments of a remembered earlier call
\* returns what that call returned.
Idempotent == Repeated => ret[Driver] = memo[2]

---------------------------------------------------------------------------
(* C5 *)

\* C5: once a call has failed, every later call returns what it returns on
\* a freshly constructed engine, and the configuration, the membership
\* arrays and the rules are those of construction.
C5_FailureIsolated ==
    (Done /\ failedBefore)
    => /\ ret[Driver] = solo_result(args[Driver][1], args[Driver][2])
       /\ config = LightingConfig
       /\ mf = FreshMf
       /\ rules = initialize_rules

\* a call returned a number after an earlier call failed
C5_Witness ==
    /\ Done
    /\ failedBefore
    /\ ret[Driver] # None

---------------------------------------------------------------------------
(* C6 *)

ReachedInference ==
    /\ DOMAIN simInput = Antecedents
    /\ \A var \in Antecedents :
          simInput[var] = clip_to_bounds(RangeOf(config, var), LocalOf(Driver, var))
    /\ membership # <<>>
    /\ log[Driver][Len(log[Driver])].level \in {"INFO", "ERROR"}

\* C6: _validate_input warns about an input exactly when its value is
\* strictly outside [min, max]; the value is then replaced by the nearest
\* bound, and otherwise (bounds included) passed on unchanged; either way
\* the call goes on to the inference with the validated values.
C6_RangeAdjustment ==
    Done =>
        /\ \A var \in Antecedents :
              LET x == ArgOf(Driver, var)
                  y == LocalOf(Driver, var)
                  r == RangeOf(config, var)
              IN  /\ Warned(Driver, var) <=> (Below(x, r) \/ Above(x, r))
                  /\ Below(x, r) => y = Units(r[1])
                  /\ Above(x, r) => y = Units(r[2])
                  /\ ~(Below(x, r) \/ Above(x, r)) => y = x
        /\ ReachedInference

\* brightness above 120 was adjusted to 120 with a warning, time_of_day at
\* its upper bound 24 passed without one, and a number came back
C6_Witness ==
    /\ Done
    /\ Above(args[Driver][1], LightingConfig.brightness_range)
    /\ local[Driver][1] = Units(LightingConfig.brightness_range[2])
    /\ Warned(Driver, "brightness")
    /\ args[Driver][2] = Units(LightingConfig.time_of_day_range[2])
    /\ local[Driver][2] = args[Driver][2]
    /\ ~Warned(Driver, "time_of_day")
    /\ ret[Driver] # None

---------------------------------------------------------------------------
(* C7 *)

Degree(term) == membership[term[1]][term[2]]

\* C7: each rule's firing strength is the least of the degrees of its
\* antecedent labels (no greater than any of them, equal to one of them).
\* At brightness 10, time_of_day 3: dark has degree 2/3, night has degree 1,
\* rule1 fires with strength 2/3 and every other rule with strength 0.
C7_FiringIsMin ==
    Done =>
        /\ \A i \in DOMAIN rules :
              /\ \A term \in rules[i].antecedent : firing[i] <= Degree(term)
              /\ \E term \in rules[i].antecedent : firing[i] = Degree(term)
        /\ args[Driver] = <<Units(10), Units(3)>> =>
              /\ 3 * membership["brightness"]["dark"] = 2 * Scale
              /\ membership["time_of_day"]["night"] = Scale
              /\ 3 * firing[1] = 2 * Scale
              /\ \A i \in DOMAIN rules \ {1} : firing[i] = 0

\* a rule of two antecedents fired below the larger of its two degrees
C7_Witness ==
    /\ Done
    /\ \E i \in DOMAIN rules :
          /\ firing[i] > 0
          /\ \E term \in rules[i].antecedent : firing[i] < Degree(term)
    /\ args[Driver] = <<Units(10), Units(3)>>

---------------------------------------------------------------------------
(* C8 *)

Fired == {i \in DOMAIN rules : firing[i] > 0}

\* rule i's consequent label clipped at the rule's firing strength, at x
Clipped(i, x) == Min(mf[Consequent][rules[i].consequent][x] * Res, firing[i])

\* C8: at every sample point of the output universe the aggregated degree
\* is the greatest, over the rules, of min(label degree, firing strength):
\* rules of strength 0 add nothing, and a label two rules fire is clipped
\* at the larger strength, never at their sum.
C8_AggregationIsMax ==
    Done =>
        \A x \in DOMAIN aggregated :
            /\ aggregated[x] = SetMax({Clipped(i, x) : i \in Fired} \cup {0})
            /\ \A i \in DOMAIN rules : aggregated[x] >= Clipped(i, x)

\* brightness 25, time_of_day 5.5: rule2 and rule6 both fire 'high', with
\* different strengths, and the curve at the peak of 'high' is the larger
C8_Witness ==
    /\ Done
    /\ args[Driver] = <<Units(25), Units(5) + Res \div 2>>
    /\ firing[2] > 0
    /\ firing[6] > firing[2]
    /\ aggregated[85] = firing[6]

---------------------------------------------------------------------------
(* C9 *)

\* the triangle (a, b, c) at x ticks, out of Scale, as the claim defines it
Triangle(abc, x) ==
    LET a == Units(abc[1])
        b == Units(abc[2])
        c == Units(abc[3])
    IN  IF x < a \/ x > c THEN 0
        ELSE IF x = b THEN Scale
        ELSE IF x < b THEN ((x - a) * Scale) \div (b - a)
        ELSE ((c - x) * Scale) \div (c - b)

\* C9 as claimed: the degree the engine gives an antecedent label at the
\* validated input x is the triangle's value at x (0 outside [a, c], 1 at b,
\* linear in between), and the sampled array of every label holds the
\* triangle's value at each sample point.
C9_AsClaimed ==
    Done =>
        /\ \A var \in Antecedents : \A l \in Labels(var) :
              /\ membership[var][l] >= 0
              /\ membership[var][l] <= Scale
              /\ membership[var][l] = Triangle(Triangles[var][l], LocalOf(Driver, var))
        /\ \A var \in Variables : \A l \in Labels(var) : \A x \in DOMAIN mf[var][l] :
              mf[var][l][x] * Res = Triangle(Triangles[var][l], Units(x))

---------------------------------------------------------------------------
(* C10 *)

Interior(x, range) == Units(range[1]) < x /\ x < Units(range[2])

\* C10: for 0 < brightness < 120 and 0 < time_of_day < 24 some brightness
\* label and some time_of_day label have a degree above 0, some rule fires,
\* and the call returns a number between the output bounds 0 and 100.
C10_Coverage ==
    (/\ Done
     /\ Interior(args[Driver][1], LightingConfig.brightness_range)
     /\ Interior(args[Driver][2], LightingConfig.time_of_day_range))
    => /\ \A var \in Antecedents : \E l \in Labels(var) : membership[var][l] > 0
       /\ ~NoRuleFired
       /\ ret[Driver] # None
       /\ ret[Driver][2] > 0
       /\ ret[Driver][1] >= LightingConfig.light_intensity_range[1] * ret[Driver][2]
       /\ ret[Driver][1] <= LightingConfig.light_intensity_range[2] * ret[Driver][2]

\* an interior pair past the last sample of both universes, where only the
\* clipped input keeps very_bright and evening above 0
C10_Witness ==
    /\ Done
    /\ args[Driver][1] > Units(universe_max(LightingConfig.brightness_range))
    /\ args[Driver][2] > Units(universe_max(LightingConfig.time_of_day_range))
    /\ Interior(args[Driver][1], LightingConfig.brightness_range)
    /\ Interior(args[Driver][2], LightingConfig.time_of_day_range)
    /\ ret[Driver] # None

=============================================================================
